---- MODULE Spec2Model ----
(***************************************************************************)
(* A model of postman-to-httpyac (src/main.go): the name sanitizer, the    *)
(* request serializer, the environment serializer, the recursive           *)
(* collection traversal and the two batch loops of main.                   *)
(*                                                                         *)
(* Text is a sequence of one-character strings, so that the quotes of a    *)
(* JSON string, the characters the sanitizer replaces and the line feeds   *)
(* of the output are all part of the state.                                *)
(***************************************************************************)
EXTENDS Integers, Sequences, FiniteSets, TLC

VARIABLES
    fileName,            \* sanitizeName: its argument
    sanitizedFileName,   \* sanitizeName: its result, <<r>> (<<>> before the call)
    sanitizedAgain,      \* sanitizeName applied to its own result, likewise
    request,             \* convertToHTTPYacRequest: its argument, a Request
    httpYacRequest,      \* convertToHTTPYacRequest: its outcome, <<o>> (<<>> before)
    collectionFiles,     \* main: the entries of the collections directory
    environmentFiles,    \* main: the entries of the environments directory
    pc,                  \* main: "main" (in one of its two loops), "traverse"
                         \*   (inside convertAndSaveCollection), "panic"
    ci,                  \* main: index of the next entry of collectionFiles
    ei,                  \* main: index of the next entry of environmentFiles
    stack,               \* the frames of convertAndSaveCollection, innermost last
    fs,                  \* the output file system: dirs and files
    stdout,              \* the messages printed so far
    ops,                 \* history: the file system calls of the traversals
    visited,             \* history: the Items the traversal loops entered
    failures             \* how many file system calls failed for outside reasons

sanVars == <<fileName, sanitizedFileName, sanitizedAgain>>
serVars == <<request, httpYacRequest>>
inVars == <<collectionFiles, environmentFiles>>
runVars == <<pc, ci, ei, stack, fs, stdout, ops, visited, failures>>
vars == <<sanVars, serVars, inVars, runVars>>

\* ------------------------------------------------------------------ bounds
MaxLen == 2          \* longest name handed to the sanitizer specification
MaxHeaders == 2      \* longest header sequence handed to the serializer specification
MaxNodes == 3        \* most entries (Items and nulls) of a collection tree
MaxFiles == 3        \* most entries of the two input directories together
MaxFailures == 1     \* most file system calls that fail for outside reasons

\* -------------------------------------------------------------------- text
LF == "\n"
QUOTE == "\""

RECURSIVE Concat(_)
\* the concatenation of a sequence of texts
Concat(ts) == IF ts = <<>> THEN <<>> ELSE Head(ts) \o Concat(Tail(ts))

\* all texts over alphabet A of length at most n
TextsUpTo(A, n) == UNION { [1..k -> A] : k \in 0..n }

\* ------------------------------------------------------------ sanitizeName
\* a mapping that forgets the double quote
mapRuneNoQuote(r) ==
    CASE r = ":" -> "_" [] r = "/" -> "_" [] r = "\\" -> "_"
      [] r = "?" -> "_" [] r = "*" -> "_" [] r = "<" -> "_"
      [] r = ">" -> "_" [] r = "|" -> "_"
      [] OTHER -> r

\* the switch of sanitizeName's mapping function
mapRune(r) ==
    CASE r = ":" -> "_" [] r = "/" -> "_" [] r = "\\" -> "_"
      [] r = "?" -> "_" [] r = "*" -> "_" [] r = "<" -> "_"
      [] r = ">" -> "_" [] r = "|" -> "_" [] r = QUOTE -> "_"
      [] OTHER -> r

\* strings.Map(mapRune, fileName): no rune is dropped, so the length is kept
sanitizeName(name) ==
    IF name = <<>> THEN <<>> ELSE [i \in 1..Len(name) |-> mapRune(name[i])]

\* ------------------------------------------------------- pointers, JSON
\* A Go pointer is a sequence of at most one element: <<>> is nil.
Nil == <<>>
Ptr(x) == <<x>>

\* A JSON value as encoding/json sees it: t is its kind, s the characters of a
\* string or a number, m the members of an object (k the key, v the value) or
\* the elements of an array (k empty).
ABSENT == [t |-> "absent", s |-> <<>>, m |-> <<>>]   \* a field the document lacks
JNull == [t |-> "null", s |-> <<>>, m |-> <<>>]
JString(str) == [t |-> "string", s |-> str, m |-> <<>>]
JNumber(digits) == [t |-> "number", s |-> digits, m |-> <<>>]
JObject(members) == [t |-> "object", s |-> <<>>, m |-> members]
JArray(elems) == [t |-> "array", s |-> <<>>, m |-> [i \in 1..Len(elems) |-> [k |-> <<>>, v |-> elems[i]]]]
Member(key, val) == [k |-> key, v |-> val]

\* the characters of a JSON string literal: the quote and the backslash escaped
EscapeChar(c) == IF c = QUOTE \/ c = "\\" THEN <<"\\", c>> ELSE <<c>>
Quoted(str) == <<QUOTE>> \o Concat([i \in 1..Len(str) |-> EscapeChar(str[i])]) \o <<QUOTE>>

RECURSIVE JoinTexts(_, _)
JoinTexts(ts, sep) ==
    IF ts = <<>> THEN <<>>
    ELSE IF Len(ts) = 1 THEN ts[1]
    ELSE ts[1] \o sep \o JoinTexts(Tail(ts), sep)

RECURSIVE RawText(_)
\* string(json.RawMessage): the bytes of the value as the (compact) document
\* holds them; a RawMessage field the document lacks is nil, the empty text
RawText(v) ==
    CASE v.t = "absent" -> <<>>
      [] v.t = "null" -> <<"n", "u", "l", "l">>
      [] v.t = "string" -> Quoted(v.s)
      [] v.t = "number" -> v.s
      [] v.t = "object" ->
            <<"{">> \o JoinTexts([i \in 1..Len(v.m) |->
                          Quoted(v.m[i].k) \o <<":">> \o RawText(v.m[i].v)], <<",">>)
                    \o <<"}">>
      [] v.t = "array" ->
            <<"[">> \o JoinTexts([i \in 1..Len(v.m) |-> RawText(v.m[i].v)], <<",">>)
                    \o <<"]">>

KeyRaw == <<"r", "a", "w">>
KeyMode == <<"m", "o", "d", "e">>
KeyHost == <<"h", "o", "s", "t">>
KeyPath == <<"p", "a", "t", "h">>

\* whether encoding/json can store JSON value v in a Go string field
FitsString(v) == v.t \in {"string", "null"}
\* ... in a Go []string field
FitsStrings(v) ==
    \/ v.t = "null"
    \/ v.t = "array" /\ \A i \in 1..Len(v.m) : FitsString(v.m[i].v)

RECURSIVE LastRaw(_)
\* the Raw field after the members were decoded in order: the last string
\* member "raw" (a null leaves the field as it is)
LastRaw(members) ==
    IF members = <<>> THEN <<>>
    ELSE LET last == members[Len(members)]
         IN  IF last.k = KeyRaw /\ last.v.t = "string" THEN last.v.s
             ELSE LastRaw(SubSeq(members, 1, Len(members) - 1))

\* json.Unmarshal(data, &x) for a struct x with the string fields strs and the
\* []string fields lists, one of the string fields being Raw: the error and
\* x.Raw. No input at all is a syntax error; null stores nothing; a value that
\* is no object, or a member whose value does not fit its field, is an
\* UnmarshalTypeError (the other members are still decoded). Keys are matched
\* as written: the documents of the model spell them in lower case.
Unmarshal(v, strs, lists) ==
    CASE v.t = "absent" -> [err |-> TRUE, Raw |-> <<>>]
      [] v.t = "null" -> [err |-> FALSE, Raw |-> <<>>]
      [] v.t = "object" ->
            [err |-> \E i \in 1..Len(v.m) :
                        \/ v.m[i].k \in strs /\ ~FitsString(v.m[i].v)
                        \/ v.m[i].k \in lists /\ ~FitsStrings(v.m[i].v),
             Raw |-> LastRaw(v.m)]
      [] OTHER -> [err |-> TRUE, Raw |-> <<>>]

\* ------------------------------------------------- convertToHTTPYacRequest
\* lines 221-224: the URL struct, with the fallback to the bytes of the field
urlRaw(req) ==
    LET url == Unmarshal(req.URL, {KeyRaw}, {KeyHost, KeyPath})
    IN  IF url.err THEN RawText(req.URL) ELSE url.Raw

\* lines 234-240: the Body struct, with the same fallback; nothing for a nil Body
bodyRaw(req) ==
    IF req.Body.t = "absent" THEN <<>>
    ELSE LET body == Unmarshal(req.Body, {KeyRaw, KeyMode}, {})
         IN  IF body.err THEN RawText(req.Body) ELSE body.Raw

RECURSIVE headerLinesMerged(_)
\* header lines that keep only the last header of each key
headerLinesMerged(hs) ==
    IF hs = <<>> THEN <<>>
    ELSE (IF \E j \in 2..Len(hs) : hs[j][1].Key = hs[1][1].Key
          THEN <<>>
          ELSE hs[1][1].Key \o <<":", " ">> \o hs[1][1].Value \o <<LF>>)
         \o headerLinesMerged(Tail(hs))

RECURSIVE headerLines(_)
\* lines 229-231: one line per header, in the order of the slice
headerLines(hs) ==
    IF hs = <<>> THEN <<>>
    ELSE hs[1][1].Key \o <<":", " ">> \o hs[1][1].Value \o <<LF>>
         \o headerLines(Tail(hs))

\* The outcome of convertToHTTPYacRequest(request): the text and the error it
\* returns, or the nil dereference of header.Key on a nil *Header.
convertToHTTPYacRequest(req) ==
    IF \E i \in 1..Len(req.Header) : req.Header[i] = Nil
    THEN [status |-> "panic", text |-> <<>>, err |-> FALSE]
    ELSE [status |-> "returned",
          text |-> req.Method \o <<" ">> \o urlRaw(req) \o <<LF>>
                   \o headerLines(req.Header)
                   \o <<LF>>
                   \o bodyRaw(req),
          err |-> FALSE]

\* the variables of a specification that does not use them
IdleSanitize ==
    /\ fileName = <<>>
    /\ sanitizedFileName = <<>>
    /\ sanitizedAgain = <<>>

IdleSerialize ==
    /\ request = [Method |-> <<>>, URL |-> ABSENT, Header |-> <<>>, Body |-> ABSENT]
    /\ httpYacRequest = <<>>

\* ------------------------------------------------------------ the run
\* A path is the sequence of its segments, relative to the working directory.
\* The two output roots are never looked into, so each is one string; every
\* other segment is a text.
ParsedCollections == "parsed-collections"
ParsedEnvironments == "parsed-environments"
DotJson == <<".", "j", "s", "o", "n">>
DotPostmanCollectionJson == <<".", "p", "o", "s", "t", "m", "a", "n", "_", "c", "o", "l", "l", "e", "c", "t", "i", "o", "n", ".", "j", "s", "o", "n">>
DotHttp == <<".", "h", "t", "t", "p">>
DotEnv == <<".", "e", "n", "v">>

\* strings.HasSuffix, strings.TrimSuffix
HasSuffix(str, suffix) ==
    /\ Len(str) >= Len(suffix)
    /\ SubSeq(str, Len(str) - Len(suffix) + 1, Len(str)) = suffix
TrimSuffix(str, suffix) ==
    IF HasSuffix(str, suffix) THEN SubSeq(str, 1, Len(str) - Len(suffix)) ELSE str

\* filepath.Join(dir, name) for a name without a separator (sanitizeName leaves
\* none): an empty name and "." add nothing, ".." climbs, and the result is clean
Join(dir, name) ==
    CASE name = <<>> \/ name = <<".">> -> dir
      [] name = <<".", ".">> ->
            IF dir = <<>> \/ dir[Len(dir)] = <<".", ".">>
            THEN Append(dir, name)
            ELSE SubSeq(dir, 1, Len(dir) - 1)
      [] OTHER -> Append(dir, name)

Parent(path) == IF path = <<>> THEN <<>> ELSE SubSeq(path, 1, Len(path) - 1)
Prefixes(path) == { SubSeq(path, 1, k) : k \in 0..Len(path) }

\* os.MkdirAll(path): it cannot succeed when a file is in the way
MkdirAllCan(fsys, path) == \A q \in Prefixes(path) : q \notin DOMAIN fsys.files
MkdirAll(fsys, path) == [fsys EXCEPT !.dirs = @ \cup Prefixes(path)]

\* os.WriteFile(path, data, 0644): it needs the directory, and no directory
\* of that name
WriteFileCan(fsys, path) == Parent(path) \in fsys.dirs /\ path \notin fsys.dirs

\* a write that leaves an existing file as it is
WriteFileKeep(fsys, path, data) ==
    IF path \in DOMAIN fsys.files THEN fsys
    ELSE [fsys EXCEPT !.files = (path :> data) @@ @]

\* the file is created or truncated, then written
WriteFile(fsys, path, data) == [fsys EXCEPT !.files = (path :> data) @@ @]

\* lines 63-69, (*PostmanEnvironment).String: the text, or the nil dereference
\* of v.Key on a nil *EnvironmentItem
RECURSIVE envLinesMerged(_)
\* lines that keep only the last pair of each key
envLinesMerged(values) ==
    IF values = <<>> THEN <<>>
    ELSE (IF \E j \in 2..Len(values) : values[j][1].Key = values[1][1].Key
          THEN <<>>
          ELSE values[1][1].Key \o <<"=">> \o values[1][1].Value \o <<LF>>)
         \o envLinesMerged(Tail(values))

RECURSIVE envLines(_)
envLines(values) ==
    IF values = <<>> THEN <<>>
    ELSE values[1][1].Key \o <<"=">> \o values[1][1].Value \o <<LF>>
         \o envLines(Tail(values))

EnvString(e) ==
    IF \E i \in 1..Len(e.Values) : e.Values[i] = Nil
    THEN [status |-> "panic", text |-> <<>>]
    ELSE [status |-> "returned", text |-> envLines(e.Values)]

RECURSIVE ItemsAt(_, _)
\* the slice a frame ranges over: items itself for the empty position, else
\* the Items of the Item the position leads to
ItemsAt(items, pos) ==
    IF pos = <<>> THEN items ELSE ItemsAt(items[pos[1]][1].Items, Tail(pos))

\* line 112: the directory of a collection file
collectionOutputDir(name) ==
    Join(<<ParsedCollections>>, TrimSuffix(sanitizeName(name), DotPostmanCollectionJson))
\* line 186
requestFileName(outputDir, item) == Join(outputDir, sanitizeName(item.Name \o DotHttp))
\* the children written next to their parent
nestedOutputDirFlat(outputDir, item) == outputDir
\* line 195
nestedOutputDir(outputDir, item) == Join(outputDir, sanitizeName(item.Name))
\* line 162
envFileName(environment) ==
    Join(<<ParsedEnvironments>>, sanitizeName(environment.Name \o DotEnv))

Top == stack[Len(stack)]
Collection == collectionFiles[ci].doc[1]
TopItems == ItemsAt(Collection.Items, Top.at)

\* the next iteration of the innermost loop
Advance(stk) ==
    [stk EXCEPT ![Len(stk)] = [@ EXCEPT !.i = @ + 1, !.phase = "request"]]
\* the recursive call of line 203
Recurse(stk, dir) ==
    Append(stk, [at |-> Append(stk[Len(stk)].at, stk[Len(stk)].i), i |-> 1,
                 phase |-> "request", outputDir |-> dir])

\* leaving the loop, and with it the traversal of the slice
afterMkdirErrorReturn(stk) ==
    [stk EXCEPT ![Len(stk)] = [@ EXCEPT !.i = Len(TopItems) + 1, !.phase = "request"]]
\* going on into the children all the same
afterMkdirErrorDescend(stk) ==
    Recurse(stk, nestedOutputDir(stk[Len(stk)].outputDir, TopItems[stk[Len(stk)].i][1]))
\* line 200: continue
afterMkdirError(stk) == Advance(stk)

IdleRun ==
    /\ collectionFiles = <<>>
    /\ environmentFiles = <<>>
    /\ pc = "main"
    /\ ci = 1
    /\ ei = 1
    /\ stack = <<>>
    /\ fs = [dirs |-> {}, files |-> <<>>]
    /\ stdout = <<>>
    /\ ops = <<>>
    /\ visited = <<>>
    /\ failures = 0

\* The state at line 108: both directories listed, both output directories made.
InitRun ==
    /\ pc = "main"
    /\ ci = 1
    /\ ei = 1
    /\ stack = <<>>
    /\ fs = [dirs |-> Prefixes(<<ParsedCollections>>) \cup Prefixes(<<ParsedEnvironments>>),
             files |-> <<>>]
    /\ stdout = <<>>
    /\ ops = <<>>
    /\ visited = <<>>
    /\ failures = 0
    /\ IdleSanitize
    /\ IdleSerialize

Say(text, about) == stdout' = Append(stdout, [text |-> text, about |-> about])
Log(op, file, pos, path, data, ok) ==
    ops' = Append(ops, [op |-> op, file |-> file, pos |-> pos, path |-> path,
                        data |-> data, ok |-> ok])

\* lines 109-139, one entry of collectionFiles up to the call of line 136
CollectionFile ==
    /\ pc = "main"
    /\ ci <= Len(collectionFiles)
    /\ LET f == collectionFiles[ci]
           outputDir == collectionOutputDir(f.name)
       IN  IF f.isDir \/ ~HasSuffix(f.name, DotJson)
           THEN /\ ci' = ci + 1
                /\ UNCHANGED <<pc, stack, fs, stdout, ops, failures>>
           ELSE \E ok \in BOOLEAN :
                /\ ok \/ failures < MaxFailures
                /\ failures' = IF ok THEN failures ELSE failures + 1
                /\ LET made == ok /\ MkdirAllCan(fs, outputDir)
                   IN  /\ Log("mkdir", ci, <<>>, outputDir, <<>>, made)
                       /\ fs' = IF made THEN MkdirAll(fs, outputDir) ELSE fs
                       /\ IF ~made
                          THEN /\ Say("Error creating collection subdirectory", f.name)
                               /\ ci' = ci + 1
                               /\ UNCHANGED <<pc, stack>>
                          ELSE IF ~f.readable
                          THEN /\ Say("Error reading collection file", f.name)
                               /\ ci' = ci + 1
                               /\ UNCHANGED <<pc, stack>>
                          ELSE IF f.doc = Nil
                          THEN /\ Say("Error parsing collection JSON", f.name)
                               /\ ci' = ci + 1
                               /\ UNCHANGED <<pc, stack>>
                          ELSE /\ pc' = "traverse"
                               /\ stack' = <<[at |-> <<>>, i |-> 1, phase |-> "request",
                                              outputDir |-> outputDir]>>
                               /\ UNCHANGED <<ci, stdout>>
    /\ UNCHANGED <<sanVars, serVars, inVars, ei, visited>>

\* lines 175-191, the first half of an iteration: the request of the Item
VisitRequest ==
    /\ pc = "traverse"
    /\ Top.phase = "request"
    /\ Top.i <= Len(TopItems)
    /\ LET entry == TopItems[Top.i]
           pos == Append(Top.at, Top.i)
       IN  IF entry = Nil
           THEN /\ pc' = "panic"     \* item.Request on a nil *Item
                /\ UNCHANGED <<stack, fs, stdout, ops, visited, failures>>
           ELSE LET item == entry[1] IN
                /\ visited' = Append(visited, [file |-> ci, pos |-> pos])
                /\ IF item.Request = Nil
                   THEN /\ stack' = [stack EXCEPT ![Len(stack)].phase = "folder"]
                        /\ UNCHANGED <<pc, fs, stdout, ops, failures>>
                   ELSE LET out == convertToHTTPYacRequest(item.Request[1])
                            path == requestFileName(Top.outputDir, item)
                        IN  IF out.status = "panic"
                            THEN /\ pc' = "panic"
                                 /\ UNCHANGED <<stack, fs, stdout, ops, failures>>
                            ELSE IF out.err
                            THEN /\ Say("Error converting request to httpYac", item.Name)
                                 /\ stack' = Advance(stack)
                                 /\ UNCHANGED <<pc, fs, ops, failures>>
                            ELSE \E ok \in BOOLEAN :
                                 /\ ok \/ failures < MaxFailures
                                 /\ failures' = IF ok THEN failures ELSE failures + 1
                                 /\ LET written == ok /\ WriteFileCan(fs, path)
                                    IN  /\ Log("write", ci, pos, path, out.text, written)
                                        /\ fs' = IF written
                                                 THEN WriteFile(fs, path, out.text)
                                                 ELSE fs
                                        /\ IF written
                                           THEN UNCHANGED stdout
                                           ELSE Say("Error writing .http file for request",
                                                    item.Name)
                                 /\ stack' = [stack EXCEPT ![Len(stack)].phase = "folder"]
                                 /\ UNCHANGED pc
    /\ UNCHANGED <<sanVars, serVars, inVars, ci, ei>>

\* lines 193-204, the second half: the children of the Item
VisitFolder ==
    /\ pc = "traverse"
    /\ Top.phase = "folder"
    /\ LET item == TopItems[Top.i][1]
           pos == Append(Top.at, Top.i)
           dir == nestedOutputDir(Top.outputDir, item)
       IN  IF Len(item.Items) = 0
           THEN /\ stack' = Advance(stack)
                /\ UNCHANGED <<fs, stdout, ops, failures>>
           ELSE \E ok \in BOOLEAN :
                /\ ok \/ failures < MaxFailures
                /\ failures' = IF ok THEN failures ELSE failures + 1
                /\ LET made == ok /\ MkdirAllCan(fs, dir)
                   IN  /\ Log("mkdir", ci, pos, dir, <<>>, made)
                       /\ fs' = IF made THEN MkdirAll(fs, dir) ELSE fs
                       /\ IF made
                          THEN /\ stack' = Recurse(stack, dir)
                               /\ UNCHANGED stdout
                          ELSE /\ Say("Error creating collection subdirectory", item.Name)
                               /\ stack' = afterMkdirError(stack)
    /\ UNCHANGED <<sanVars, serVars, inVars, pc, ci, ei, visited>>

\* lines 205-206 and 138: the loop of the innermost frame is over; the call
\* returns to the iteration that made it, or to main
Return ==
    /\ pc = "traverse"
    /\ Top.phase = "request"
    /\ Top.i > Len(TopItems)
    /\ IF Len(stack) = 1
       THEN /\ stack' = <<>>
            /\ Say("Converted collection", collectionFiles[ci].name)
            /\ pc' = "main"
            /\ ci' = ci + 1
       ELSE /\ stack' = Advance(SubSeq(stack, 1, Len(stack) - 1))
            /\ UNCHANGED <<stdout, pc, ci>>
    /\ UNCHANGED <<sanVars, serVars, inVars, ei, fs, ops, visited, failures>>

\* lines 143-169, one entry of environmentFiles
EnvironmentFile ==
    /\ pc = "main"
    /\ ci > Len(collectionFiles)
    /\ ei <= Len(environmentFiles)
    /\ LET f == environmentFiles[ei]
       IN  IF f.isDir \/ ~HasSuffix(f.name, DotJson)
           THEN /\ ei' = ei + 1
                /\ UNCHANGED <<pc, fs, stdout, ops, failures>>
           ELSE IF ~f.readable
           THEN /\ Say("Error reading environment file", f.name)
                /\ ei' = ei + 1
                /\ UNCHANGED <<pc, fs, ops, failures>>
           ELSE IF f.doc = Nil
           THEN /\ Say("Error parsing environment JSON", f.name)
                /\ ei' = ei + 1
                /\ UNCHANGED <<pc, fs, ops, failures>>
           ELSE LET environment == f.doc[1]
                    out == EnvString(environment)
                    path == envFileName(environment)
                IN  IF out.status = "panic"
                    THEN /\ pc' = "panic"
                         /\ UNCHANGED <<ei, fs, stdout, ops, failures>>
                    ELSE \E ok \in BOOLEAN :
                         /\ ok \/ failures < MaxFailures
                         /\ failures' = IF ok THEN failures ELSE failures + 1
                         /\ LET written == ok /\ WriteFileCan(fs, path)
                            IN  /\ Log("write-env", ei, <<>>, path, out.text, written)
                                /\ fs' = IF written THEN WriteFile(fs, path, out.text) ELSE fs
                                /\ stdout' = stdout \o
                                     (IF written THEN <<>>
                                      ELSE <<[text |-> "Error writing .env file for environment",
                                              about |-> f.name]>>)
                                     \o <<[text |-> "Converted environment", about |-> f.name]>>
                         /\ ei' = ei + 1
                         /\ UNCHANGED pc
    /\ UNCHANGED <<sanVars, serVars, inVars, ci, stack, visited>>

Next == CollectionFile \/ VisitRequest \/ VisitFolder \/ Return \/ EnvironmentFile

\* --------------------------------------- specification: one collection
GET == <<"G", "E", "T">>
HttpXY == <<"h", "t", "t", "p", ":", "/", "/", "x", "/", "y">>
Hi == <<"h", "i">>

Request1 == [Method |-> GET, URL |-> JObject(<<Member(KeyRaw, JString(HttpXY))>>),
             Header |-> <<>>, Body |-> ABSENT]
Request2 == [Method |-> GET, URL |-> JObject(<<Member(KeyRaw, JString(HttpXY))>>),
             Header |-> <<Ptr([Key |-> <<"A">>, Value |-> <<"1">>])>>,
             Body |-> JObject(<<Member(KeyMode, JString(KeyRaw)), Member(KeyRaw, JString(Hi))>>)]

\* The Items of the trees, without their children: a name that needs no
\* sanitizing, with and without a request, and two names that sanitize to the
\* same segment "_", with different requests.
ItemHeads ==
    { [Name |-> <<"a">>, Request |-> Nil],
      [Name |-> <<"a">>, Request |-> Ptr(Request1)],
      [Name |-> <<":">>, Request |-> Ptr(Request1)],
      [Name |-> <<"/">>, Request |-> Ptr(Request2)] }

RECURSIVE ForestsOf(_), EntriesOf(_)
\* the item sequences with n entries in all, at any depth
ForestsOf(n) ==
    IF n = 0 THEN {<<>>}
    ELSE UNION { { <<first>> \o rest : first \in EntriesOf(k), rest \in ForestsOf(n - k) }
                 : k \in 1..n }
\* the entries of an item sequence that hold k entries in all: an Item with
\* its children, or a JSON null
EntriesOf(k) ==
    (IF k = 1 THEN {Nil} ELSE {})
    \cup { Ptr([Name |-> h.Name, Request |-> h.Request, Items |-> ch]) :
             h \in ItemHeads, ch \in ForestsOf(k - 1) }

File(name, doc) == [name |-> name, isDir |-> FALSE, readable |-> TRUE, doc |-> doc]
EnvDevMain ==
    File(<<"e", ".", "j", "s", "o", "n">>, Ptr([Name |-> <<"d", ":", "m">>,
                    Values |-> <<Ptr([Key |-> <<"H">>, Value |-> <<"l">>])>>]))

InitTree ==
    /\ \E n \in 0..MaxNodes : \E forest \in ForestsOf(n) :
          collectionFiles = <<File(<<"c", ".", "p", "o", "s", "t", "m", "a", "n", "_", "c", "o", "l", "l", "e", "c", "t", "i", "o", "n", ".", "j", "s", "o", "n">>, Ptr([Items |-> forest]))>>
    /\ environmentFiles = <<EnvDevMain>>
    /\ InitRun

SpecTree == InitTree /\ [][Next]_vars

\* ------------------------------------------- specification: the batch
\* a request in the older shape: url and body are bare JSON strings
Request3 == [Method |-> GET, URL |-> JString(HttpXY), Header |-> <<>>, Body |-> JString(Hi)]
\* a request with a null among its headers
Request4 == [Method |-> GET, URL |-> JString(HttpXY), Header |-> <<Nil>>, Body |-> ABSENT]

Leaf(name, req) == Ptr([Name |-> name, Request |-> Ptr(req), Items |-> <<>>])

\* the entries a collections directory is made of
CollectionMenu ==
    { \* a folder that is also a request, with a child in the older shape
      File(<<"c", ".", "p", "o", "s", "t", "m", "a", "n", "_", "c", "o", "l", "l", "e", "c", "t", "i", "o", "n", ".", "j", "s", "o", "n">>,
           Ptr([Items |-> <<Ptr([Name |-> <<":">>, Request |-> Ptr(Request2),
                                 Items |-> <<Leaf(<<"a">>, Request3)>>])>>])),
      \* a null in the item sequence, before an Item
      File(<<"n", ".", "j", "s", "o", "n">>, Ptr([Items |-> <<Nil, Leaf(<<"a">>, Request1)>>])),
      \* a null in a header sequence
      File(<<"h", ".", "j", "s", "o", "n">>, Ptr([Items |-> <<Leaf(<<"a">>, Request4)>>])),
      \* a file that cannot be read
      [name |-> <<"u", ".", "j", "s", "o", "n">>, isDir |-> FALSE, readable |-> FALSE, doc |-> Nil],
      \* a file that json.Unmarshal rejects
      File(<<"m", ".", "j", "s", "o", "n">>, Nil),
      \* a directory, which the loop passes over
      [name |-> <<"d", ".", "j", "s", "o", "n">>, isDir |-> TRUE, readable |-> FALSE, doc |-> Nil] }

Pair(key, value) == Ptr([Key |-> key, Value |-> value])

\* the entries an environments directory is made of
EnvironmentMenu ==
    { \* a name to sanitize, a key that comes twice
      File(<<"e", ".", "j", "s", "o", "n">>, Ptr([Name |-> <<"d", ":", "m">>,
                      Values |-> <<Pair(<<"H">>, <<"l">>), Pair(<<"K">>, <<"=">>),
                                   Pair(<<"H">>, <<"2">>)>>])),
      \* a null in the values sequence
      File(<<"n", ".", "j", "s", "o", "n">>, Ptr([Name |-> <<"n">>, Values |-> <<Pair(<<"H">>, <<"l">>), Nil>>])),
      [name |-> <<"u", ".", "j", "s", "o", "n">>, isDir |-> FALSE, readable |-> FALSE, doc |-> Nil],
      File(<<"m", ".", "j", "s", "o", "n">>, Nil),
      \* a file of another kind, which the loop passes over
      File(<<"r", ".", "t", "x", "t">>, Nil) }

Init ==
    /\ collectionFiles \in TextsUpTo(CollectionMenu, MaxFiles)
    /\ environmentFiles \in TextsUpTo(EnvironmentMenu, MaxFiles - Len(collectionFiles))
    /\ InitRun

Spec == Init /\ [][Next]_vars

\* ------------------------------------------ specification: the serializer

Methods == {GET, <<>>}
UrlShapes ==
    { ABSENT, JNull, JString(HttpXY), JNumber(<<"7">>),
      JObject(<<Member(KeyRaw, JString(HttpXY))>>),
      JObject(<<Member(KeyRaw, JString(HttpXY)), Member(KeyHost, JArray(<<JString(<<"x">>)>>)),
                Member(KeyPath, JArray(<<JString(<<"y">>)>>))>>),
      JObject(<<Member(KeyHost, JArray(<<JString(<<"x">>)>>))>>),
      JObject(<<Member(KeyRaw, JNumber(<<"7">>))>>),
      JObject(<<Member(KeyRaw, JString(HttpXY)), Member(KeyHost, JString(<<"x">>))>>) }
BodyShapes ==
    { ABSENT, JNull, JString(Hi), JArray(<<JString(Hi)>>),
      JObject(<<Member(KeyMode, JString(KeyRaw)), Member(KeyRaw, JString(Hi))>>),
      JObject(<<Member(KeyMode, JString(<<"f">>))>>),
      JObject(<<Member(KeyRaw, JString(Hi)), Member(KeyMode, JNumber(<<"5">>))>>) }
HeaderEntries ==
    { Nil,
      Ptr([Key |-> <<"A">>, Value |-> <<"1">>]),
      Ptr([Key |-> <<"B">>, Value |-> <<"2">>]),
      Ptr([Key |-> <<"A">>, Value |-> <<"3">>]) }

Requests(maxHeaders) ==
    [Method : Methods, URL : UrlShapes, Header : TextsUpTo(HeaderEntries, maxHeaders),
     Body : BodyShapes]

InitSerialize ==
    /\ request \in Requests(MaxHeaders)
    /\ httpYacRequest = <<>>
    /\ IdleSanitize
    /\ IdleRun

Convert ==
    /\ httpYacRequest = <<>>
    /\ httpYacRequest' = <<convertToHTTPYacRequest(request)>>
    /\ UNCHANGED <<request, sanVars, inVars, runVars>>

NextSerialize == Convert

SpecSerialize == InitSerialize /\ [][NextSerialize]_vars

\* ------------------------------------------- specification: the sanitizer
SanitizeAlphabet == {":", "/", "\\", "?", "*", "<", ">", "|", QUOTE, "a", "_", ".", " "}

InitSanitize ==
    /\ fileName \in TextsUpTo(SanitizeAlphabet, MaxLen)
    /\ sanitizedFileName = <<>>
    /\ sanitizedAgain = <<>>
    /\ IdleSerialize
    /\ IdleRun

Sanitize ==
    /\ sanitizedFileName = <<>>
    /\ sanitizedFileName' = <<sanitizeName(fileName)>>
    /\ UNCHANGED <<fileName, sanitizedAgain, serVars, inVars, runVars>>

SanitizeAgain ==
    /\ sanitizedFileName # <<>>
    /\ sanitizedAgain = <<>>
    /\ sanitizedAgain' = <<sanitizeName(sanitizedFileName[1])>>
    /\ UNCHANGED <<fileName, sanitizedFileName, serVars, inVars, runVars>>

NextSanitize == Sanitize \/ SanitizeAgain

SpecSanitize == InitSanitize /\ [][NextSanitize]_vars

\* ------------------------------------------------------------------ claims
NineChars == {":", "/", "\\", "?", "*", "<", ">", "|", QUOTE}

\* C7: sanitizeName keeps the length, turns each of the nine characters into
\* "_" and leaves every other character alone; applied to its own result it
\* changes nothing; a name with none of the nine characters is returned as is.
C7_SanitizeIsCharacterMap ==
    /\ sanitizedFileName # <<>> =>
         /\ Len(sanitizedFileName[1]) = Len(fileName)
         /\ \A i \in 1..Len(fileName) :
              sanitizedFileName[1][i] =
                  IF fileName[i] \in NineChars THEN "_" ELSE fileName[i]
         /\ ((\A i \in 1..Len(fileName) : fileName[i] \notin NineChars)
               => sanitizedFileName[1] = fileName)
    /\ sanitizedAgain # <<>> => sanitizedAgain = sanitizedFileName

C7_Witness ==
    /\ sanitizedAgain # <<>>
    /\ \E i \in 1..Len(fileName) : fileName[i] \in NineChars
    /\ sanitizedFileName[1] # fileName

\* ------------------------------------------------- reading the output text
\* the index of the first line feed of text that is followed by a line feed
\* (the blank separator line), 0 when there is none
FirstBlank(text) ==
    LET ks == { k \in 1..(Len(text) - 1) : text[k] = LF /\ text[k + 1] = LF }
    IN  IF ks = {} THEN 0 ELSE CHOOSE k \in ks : \A j \in ks : k <= j

RECURSIVE SplitLines(_)
\* the lines of a text, each without the line feed that ends it (the last
\* line may lack one)
SplitLines(text) ==
    IF text = <<>> THEN <<>>
    ELSE LET ks == { k \in 1..Len(text) : text[k] = LF }
         IN  IF ks = {} THEN <<text>>
             ELSE LET k == CHOOSE k \in ks : \A j \in ks : k <= j
                  IN  <<SubSeq(text, 1, k - 1)>>
                      \o SplitLines(SubSeq(text, k + 1, Len(text)))

Returned == httpYacRequest # <<>> /\ httpYacRequest[1].status = "returned"
OutText == httpYacRequest[1].text
\* the lines up to the blank separator, and the text after it
HeadLines == SplitLines(SubSeq(OutText, 1, FirstBlank(OutText)))
AfterBlank == SubSeq(OutText, FirstBlank(OutText) + 2, Len(OutText))

HasRawString(v) == v.t = "object" /\ \E i \in 1..Len(v.m) : v.m[i].k = KeyRaw /\ v.m[i].v.t = "string"
RawOf(v) == LET i == CHOOSE i \in 1..Len(v.m) : v.m[i].k = KeyRaw /\ v.m[i].v.t = "string"
            IN  v.m[i].v.s

\* C2: for a url that is the bare JSON string s the first line is the one of
\* the same request with url {"raw": s}, namely the method, a space and s.
C2_BareStringUrlSameFirstLine ==
    (Returned /\ request.URL.t = "string") =>
        /\ HeadLines[1] = request.Method \o <<" ">> \o request.URL.s
        /\ HeadLines[1] = SplitLines(convertToHTTPYacRequest(
                              [request EXCEPT !.URL = JObject(<<Member(KeyRaw, request.URL)>>)]).text)[1]

\* C3: after the blank line comes the raw field of a body object that has one,
\* else the whole body value as the document holds it, and nothing at all for
\* a request without a body field. (A body that is the JSON null is left
\* aside: whether it counts as present is not what the claim is about.)
C3_BodyTextAfterBlankLine ==
    (Returned /\ request.Body.t # "null") =>
        AfterBlank = IF request.Body.t = "absent" THEN <<>>
                     ELSE IF HasRawString(request.Body) THEN RawOf(request.Body)
                     ELSE RawText(request.Body)

\* C4: the text is the first line, then one line key, ": ", value per header
\* in the order of the sequence (duplicate keys each), then one empty line,
\* there also without a body, and only then the body text.
C4_HeaderLinesInOrderThenBlank ==
    Returned =>
        /\ FirstBlank(OutText) > 0
        /\ Len(HeadLines) = 1 + Len(request.Header)
        /\ \A i \in 1..Len(request.Header) :
              HeadLines[i + 1] = request.Header[i][1].Key \o <<":", " ">>
                                     \o request.Header[i][1].Value
        /\ (request.Body.t = "absent" => Len(OutText) = FirstBlank(OutText) + 1)

C4_Witness ==
    /\ Returned
    /\ Len(request.Header) = 2
    /\ request.Header[1][1].Key = request.Header[2][1].Key
    /\ request.Body.t = "absent"

\* --------------------------------------------------- reading the Item tree
\* the sanitized form of a name, as section 4.3 of the specification states it
Sanitized(name) ==
    IF name = <<>> THEN <<>>
    ELSE [i \in 1..Len(name) |-> IF name[i] \in NineChars THEN "_" ELSE name[i]]

IsPrefix(p, q) == Len(p) <= Len(q) /\ SubSeq(q, 1, Len(p)) = p
IsAncestor(p, q) == IsPrefix(p, q) /\ p # q
\* p comes before q in the depth-first pre-order of the tree
Before(p, q) ==
    \/ IsAncestor(p, q)
    \/ \E i \in 1..Len(p) :
          /\ i <= Len(q)
          /\ p[i] < q[i]
          /\ \A j \in 1..(i - 1) : p[j] = q[j]

RECURSIVE PositionsIn(_, _)
\* the positions of the Items (not of the nulls) of an item sequence
PositionsIn(items, prefix) ==
    UNION { IF items[i] = Nil THEN {}
            ELSE {Append(prefix, i)}
                 \cup PositionsIn(items[i][1].Items, Append(prefix, i))
            : i \in 1..Len(items) }

RECURSIVE NodeAt(_, _)
NodeAt(items, pos) ==
    IF Len(pos) = 1 THEN items[pos[1]][1]
    ELSE NodeAt(items[pos[1]][1].Items, Tail(pos))

\* the one collection document of SpecTree, its Items and its directory
Tree == collectionFiles[1].doc[1].Items
TreeDir == <<ParsedCollections, <<"c">>>>
Positions == PositionsIn(Tree, <<>>)
RequestPositions == { pos \in Positions : NodeAt(Tree, pos).Request # Nil }

\* the sanitized names along the path from the root to pos, joined under the
\* directory of the collection, the extension added to the last one
ExpectedPath(pos) ==
    TreeDir
    \o [k \in 1..Len(pos) |->
          IF k < Len(pos)
          THEN Sanitized(NodeAt(Tree, SubSeq(pos, 1, k)).Name)
          ELSE Sanitized(NodeAt(Tree, pos).Name) \o DotHttp]

RequestFiles == { path \in DOMAIN fs.files : path[1] = ParsedCollections }
TraversalOver == pc = "main" /\ ci > 1
NoCallFailed == \A k \in 1..Len(ops) : ops[k].ok
TreeOps == { k \in 1..Len(ops) : ops[k].op \in {"mkdir", "write"} }
Said(text) == Cardinality({ k \in 1..Len(stdout) : stdout[k].text = text })
Failed(op, deep) ==
    { k \in TreeOps : ops[k].op = op /\ ~ops[k].ok /\ (deep => ops[k].pos # <<>>) }

\* C1: when no file system call fails, the request files written by the
\* traversal are exactly the expected paths of the Items with a request.
C1_RequestFilesAreExpectedPaths ==
    (TraversalOver /\ NoCallFailed) =>
        RequestFiles = { ExpectedPath(pos) : pos \in RequestPositions }

C1_Witness ==
    /\ TraversalOver /\ NoCallFailed
    /\ \E p \in RequestPositions, q \in RequestPositions :
          Len(p) = 1 /\ Len(q) = 2 /\ ExpectedPath(p) # ExpectedPath(q)
    /\ \E p \in Positions : p \notin RequestPositions
    /\ Cardinality(RequestFiles) >= 2

\* C6: a folder whose directory cannot be made is reported, and nothing is
\* done for any of its descendants; a request file that cannot be written is
\* reported; and the traversal enters, once, every Item that is not below a
\* folder whose directory could not be made.
C6_SkipAndContinue ==
    /\ Said("Error creating collection subdirectory") = Cardinality(Failed("mkdir", FALSE))
    /\ Said("Error writing .http file for request") = Cardinality(Failed("write", FALSE))
    /\ \A k \in Failed("mkdir", TRUE) :
          /\ \A j \in TreeOps : ~IsAncestor(ops[k].pos, ops[j].pos)
          /\ \A j \in 1..Len(visited) : ~IsAncestor(ops[k].pos, visited[j].pos)
    /\ (TraversalOver /\ ops[1].ok) =>
          /\ { visited[j].pos : j \in 1..Len(visited) }
               = { pos \in Positions :
                     \A k \in Failed("mkdir", TRUE) : ~IsAncestor(ops[k].pos, pos) }
          /\ \A i \in 1..Len(visited), j \in 1..Len(visited) :
                visited[i].pos = visited[j].pos => i = j

C6_Witness ==
    /\ TraversalOver
    /\ \E k \in Failed("mkdir", TRUE) :
          /\ \E pos \in Positions : IsAncestor(ops[k].pos, pos)
          /\ \E j \in 1..Len(visited) :
                Before(ops[k].pos, visited[j].pos) /\ ~IsAncestor(ops[k].pos, visited[j].pos)

\* a second witness of C6's case: a failed write, and a later Item entered
C6_WitnessWrite ==
    /\ TraversalOver
    /\ \E k \in Failed("write", TRUE) :
          \E j \in 1..Len(visited) : Before(ops[k].pos, visited[j].pos)

\* C9: the file system calls of a traversal come in the pre-order of the
\* Items, the request file of an Item before its subdirectory; and whenever
\* one is made, the directory it is made in was made before.
C9_PreOrderAncestorFirst ==
    /\ \A j \in TreeOps, k \in TreeOps :
          j < k => \/ Before(ops[j].pos, ops[k].pos)
                   \/ /\ ops[j].pos = ops[k].pos
                      /\ ops[j].op = "write"
                      /\ ops[k].op = "mkdir"
    /\ \A j \in 1..Len(visited), k \in 1..Len(visited) :
          j < k => Before(visited[j].pos, visited[k].pos)
    /\ \A k \in TreeOps :
          \/ Parent(ops[k].path) = <<ParsedCollections>>
          \/ \E j \in TreeOps : /\ j < k
                                /\ ops[j].op = "mkdir"
                                /\ ops[j].ok
                                /\ ops[j].path = Parent(ops[k].path)

C9_Witness ==
    /\ TraversalOver
    /\ \E j \in TreeOps, k \in TreeOps, l \in TreeOps :
          /\ j < k /\ k < l
          /\ ops[j].pos = ops[k].pos /\ ops[j].op = "write" /\ ops[k].op = "mkdir"
          /\ IsAncestor(ops[k].pos, ops[l].pos) /\ ops[l].op = "write" /\ ops[l].ok
    /\ \E j \in TreeOps : Len(ops[j].pos) = 1 /\ ops[j].pos[1] = 2

\* the Items with a request whose file is path, and the last of them
Writers(path) == { pos \in RequestPositions : ExpectedPath(pos) = path }
LastWriter(path) == CHOOSE pos \in Writers(path) : \A q \in Writers(path) : q = pos \/ Before(q, pos)
Serialized(pos) == convertToHTTPYacRequest(NodeAt(Tree, pos).Request[1]).text
Collision == \E p \in RequestPositions, q \in RequestPositions : p # q /\ ExpectedPath(p) = ExpectedPath(q)

\* C10: Items that map to the same request file are no error; the file ends
\* up with the text of the last of them in traversal order, and there are
\* fewer files than Items with a request.
C10_LastWriteWins ==
    (TraversalOver /\ NoCallFailed) =>
        /\ \A k \in 1..Len(stdout) : stdout[k].text \in {"Converted collection", "Converted environment"}
        /\ \A pos \in RequestPositions :
              /\ ExpectedPath(pos) \in DOMAIN fs.files
              /\ fs.files[ExpectedPath(pos)] = Serialized(LastWriter(ExpectedPath(pos)))
        /\ Collision => Cardinality(RequestFiles) < Cardinality(RequestPositions)

C10_Witness ==
    /\ TraversalOver /\ NoCallFailed
    /\ \E p \in RequestPositions, q \in RequestPositions :
          /\ Before(p, q)
          /\ ExpectedPath(p) = ExpectedPath(q)
          /\ NodeAt(Tree, p).Name # NodeAt(Tree, q).Name
          /\ Serialized(p) # Serialized(q)
          /\ LastWriter(ExpectedPath(p)) = q
          /\ fs.files[ExpectedPath(p)] = Serialized(q)

\* ------------------------------------------------------ reading the batch
\* the environment entries main has dealt with that it could decode
Decoded(k) ==
    /\ k < ei
    /\ ~environmentFiles[k].isDir
    /\ HasSuffix(environmentFiles[k].name, DotJson)
    /\ environmentFiles[k].readable
    /\ environmentFiles[k].doc # Nil
EnvWrites(k) == { j \in 1..Len(ops) : ops[j].op = "write-env" /\ ops[j].file = k }

\* the entries after the one main is dealing with
LaterEntries ==
    IF ci <= Len(collectionFiles)
    THEN (Len(collectionFiles) - ci) + Len(environmentFiles)
    ELSE Len(environmentFiles) - ei

\* C5: whatever an input file holds, the run goes on to every later entry of
\* both directories (it never stops with entries left), and the serializer
\* reports no failure.
C5_BadInputNeverAbortsBatch ==
    /\ pc = "panic" => LaterEntries = 0
    /\ Said("Error converting request to httpYac") = 0

\* C8: for a decoded environment document one file is written, named by the
\* sanitized name followed by .env, in the environments directory; its lines
\* are key, "=", value of the pairs, in their order, duplicates included. The
\* file holds that text until a later document of the same name replaces it.
C8_EnvFileLinePerPair ==
    \A k \in 1..Len(environmentFiles) :
        Decoded(k) =>
            LET e == environmentFiles[k].doc[1]
            IN  /\ Cardinality(EnvWrites(k)) = 1
                /\ \A j \in EnvWrites(k) :
                      /\ ops[j].path = <<ParsedEnvironments, Sanitized(e.Name) \o DotEnv>>
                      /\ (ops[j].data # <<>> => ops[j].data[Len(ops[j].data)] = LF)
                      /\ SplitLines(ops[j].data)
                           = [i \in 1..Len(e.Values) |->
                                e.Values[i][1].Key \o <<"=">> \o e.Values[i][1].Value]
                      /\ (/\ ops[j].ok
                          /\ \A l \in (j + 1)..Len(ops) :
                                ~(ops[l].ok /\ ops[l].path = ops[j].path))
                           => /\ ops[j].path \in DOMAIN fs.files
                              /\ fs.files[ops[j].path] = ops[j].data

C8_Witness ==
    \E k \in 1..Len(environmentFiles) :
        /\ Decoded(k)
        /\ Len(environmentFiles[k].doc[1].Values) = 3
        /\ \E j \in EnvWrites(k) : ops[j].ok
====
